---- MODULE Spec2Model ----
(***************************************************************************)
(* Model of the trading bot of cipher376/Tradingbot.                       *)
(*                                                                         *)
(* Numbers.  Python floats are modelled as exact fixed-point integers:     *)
(*   money (amortized_investment, current_investment, fixed_capital,       *)
(*          order value, min_notional)   in units of 1/MoneyScale,         *)
(*   quantities and step sizes           in units of 1/MoneyScale coin,    *)
(*   prices                              in whole money units per coin,    *)
(*   percentages (rate)                  in units of 1/RateScale percent.  *)
(* None is the Python None (unset last_trade_price, failed call).          *)
(***************************************************************************)
EXTENDS Integers, Sequences, FiniteSets, TLC

\* round(x, 4) of analysis_simulation.py: four decimals of a money amount
MoneyScale == 10000
\* round(x, 3) of run_bot: three decimals of a percentage
RateScale == 1000
\* the "* 100" and "/ 100" of a percentage
Percent == 100
\* Python's None
None == 0 - 1

\* ----- bounds of the model ------------------------------------------------
\* loop iterations of run_bot explored over all runs
MaxTicks == 3
\* process restarts (constructions of a new TradingBot on the same store)
MaxRestarts == 1

\* ----- inputs -------------------------------------------------------------
\* prices the ticker can report
Prices == {94, 97, 100, 106}
\* constructor arguments (amortized_investment, rate, fixed_capital,
\* current_investment) a process can be started with
Configs ==
    { [amortized_investment |-> 10000, rate |-> 5000,
       fixed_capital |-> 10000, current_investment |-> 0],
      [amortized_investment |-> 10000, rate |-> 5000,
       fixed_capital |-> 0, current_investment |-> 9500],
      [amortized_investment |-> 10000, rate |-> 12766,
       fixed_capital |-> 10000, current_investment |-> 10000],
      [amortized_investment |-> 5000, rate |-> 5000,
       fixed_capital |-> 10000, current_investment |-> 10000] }
\* what get_symbol_info / get_ticker answer inside _get_quantity_to_trade:
\* the LOT_SIZE step (0: no LOT_SIZE filter), the MIN_NOTIONAL, or a failure
SymbolInfos ==
    { [kind |-> "ok", step_size |-> 1, min_notional |-> 0],
      [kind |-> "ok", step_size |-> 10, min_notional |-> 9990],
      [kind |-> "ok", step_size |-> 0, min_notional |-> 0],
      [kind |-> "raise", step_size |-> 0, min_notional |-> 0] }
\* prices the second get_ticker, inside _get_quantity_to_trade, can report
LastPrices == {94, 100}
\* tickSize of the PRICE_FILTER (None: the filter is missing)
TickSizes == {None, 5}

\* ----- arithmetic ---------------------------------------------------------
Abs(x) == IF x < 0 THEN 0 - x ELSE x

\* Python's round(): n/d rounded to the nearest integer, ties to even
RoundHalfEven(n, d) ==
    LET q == n \div d
        r == n % d
    IN  IF 2 * r < d THEN q
        ELSE IF 2 * r > d THEN q + 1
        ELSE IF q % 2 = 0 THEN q ELSE q + 1

\* ----- the CSV text of a float -------------------------------------------
\* str(x) as csv.DictWriter writes it: integer part and decimals
Repr(x, scale) == <<x \div scale, x % scale>>
\* float(text) as _load_state reads it
Float(text, scale) == text[1] * scale + text[2]

VARIABLES
    cfg,            \* constructor arguments of the running process
    bot,            \* the TradingBot object: its fields
    csv_file,       \* the state file: [exists, lines]
    pc,             \* position of run_bot
    current_price,  \* run_bot local: price of this tick (None: no price)
    decision,       \* branch run_bot took in this tick
    quantity,       \* run_bot local: sizing result of this tick (None: not sized)
    order,          \* run_bot local: the order _place_order returned in this tick
    orders,         \* the exchange: orders accepted and refused, by side
    ticks,          \* loop iterations done
    restarts,       \* constructions done after the first
    call            \* a call of a pure function: its arguments and its result

vars == <<cfg, bot, csv_file, pc, current_price, decision, quantity, order,
          orders, ticks, restarts, call>>

\* last_trade_price, current_investment, fixed_capital of a bot
Ledger(b) == <<b.last_trade_price, b.current_investment, b.fixed_capital>>

\* ----- state store --------------------------------------------------------
Header == [kind |-> "header"]
NoFile == [exists |-> FALSE, lines |-> <<>>]

\* csv.DictReader: the first line names the fields, the others are the rows
Rows(f) == IF Len(f.lines) = 0 THEN <<>> ELSE Tail(f.lines)

\* _save_state opening the file with mode "w": header and the one record
_save_state_Overwrite(b, f) ==
    IF b.last_trade_price = None THEN f
    ELSE LET params ==
               [kind |-> "row",
                amortized_investment |-> Repr(b.amortized_investment, MoneyScale),
                rate |-> Repr(b.rate, RateScale),
                current_investment |-> Repr(b.current_investment, MoneyScale),
                fixed_capital |-> Repr(b.fixed_capital, MoneyScale),
                last_trade_price |-> Repr(b.last_trade_price, 1)]
         IN  [exists |-> TRUE, lines |-> <<Header, params>>]

_save_state(b, f) ==
    IF b.last_trade_price = None THEN f
    ELSE LET params ==
               [kind |-> "row",
                amortized_investment |-> Repr(b.amortized_investment, MoneyScale),
                rate |-> Repr(b.rate, RateScale),
                current_investment |-> Repr(b.current_investment, MoneyScale),
                fixed_capital |-> Repr(b.fixed_capital, MoneyScale),
                last_trade_price |-> Repr(b.last_trade_price, 1)]
         IN  [exists |-> TRUE,
              lines |-> IF f.exists THEN Append(f.lines, params)
                        ELSE <<Header, params>>]

\* _load_state reading the first record, params[0], instead of the last
_load_state_FirstRecord(b, f) ==
    IF ~f.exists THEN b
    ELSE LET params == Rows(f)
         IN  IF Len(params) > 0
             THEN LET last_state == params[1]
                  IN  [b EXCEPT
                         !.last_trade_price = Float(last_state.last_trade_price, 1),
                         !.current_investment =
                             Float(last_state.current_investment, MoneyScale),
                         !.fixed_capital = Float(last_state.fixed_capital, MoneyScale)]
             ELSE b

_load_state(b, f) ==
    IF ~f.exists THEN b
    ELSE LET params == Rows(f)
         IN  IF Len(params) > 0
             THEN LET last_state == params[Len(params)]
                  IN  [b EXCEPT
                         !.last_trade_price = Float(last_state.last_trade_price, 1),
                         !.current_investment =
                             Float(last_state.current_investment, MoneyScale),
                         !.fixed_capital = Float(last_state.fixed_capital, MoneyScale)]
             ELSE b

\* TradingBot.__init__
TradingBot(c, connected, f) ==
    _load_state([amortized_investment |-> c.amortized_investment,
                 rate |-> c.rate,
                 fixed_capital |-> c.fixed_capital,
                 last_trade_price |-> None,
                 current_investment |-> c.current_investment,
                 client |-> connected], f)

\* ----- amortization engine (analysis_simulation.py) ------------------------
RECURSIVE GCD(_, _)
GCD(a, b) == IF b = 0 THEN a ELSE GCD(b, a % b)

RECURSIVE Pow(_, _)
Pow(x, n) == IF n = 0 THEN 1 ELSE x * Pow(x, n - 1)

\* a percentage as the fraction rate/100, in lowest terms: <<num, den>>
RateFraction(rate) ==
    LET g == GCD(Abs(rate), Percent * RateScale)
    IN  <<rate \div g, (Percent * RateScale) \div g>>

\* the inner loop of depreciate with the exponent j in place of j - 1
RECURSIVE DepreciateSum_FromOne(_, _, _, _)
DepreciateSum_FromOne(j, i, rate, A) ==
    LET p == RateFraction(rate)[2] - RateFraction(rate)[1]
        q == RateFraction(rate)[2]
    IN  IF j > i THEN <<0, Pow(q, i)>>
        ELSE <<Pow(p, j) * Pow(q, i - j) * A
                 + DepreciateSum_FromOne(j + 1, i, rate, A)[1],
               Pow(q, i)>>

\* the inner loop of depreciate: sum over j = 1..i of
\* pow(100 - rate, j - 1) / pow(100, j - 1) * A, as the fraction <<num, den>>
RECURSIVE DepreciateSum(_, _, _, _)
DepreciateSum(j, i, rate, A) ==
    LET p == RateFraction(rate)[2] - RateFraction(rate)[1]
        q == RateFraction(rate)[2]
    IN  IF j > i THEN <<0, Pow(q, i - 1)>>
        ELSE <<Pow(p, j - 1) * Pow(q, i - j) * A
                 + DepreciateSum(j + 1, i, rate, A)[1],
               Pow(q, i - 1)>>

\* the outer loop of depreciate without its "if(fixed_capital<A): break"
RECURSIVE DepreciateLoop_NoBreak(_, _, _, _, _, _, _)
DepreciateLoop_NoBreak(i, stop, rate, A, CI, fixed_capital, ans) ==
    IF i > stop THEN <<ans, fixed_capital>>
    ELSE LET s == DepreciateSum(1, i, rate, A)
         IN  DepreciateLoop_NoBreak(i + 1, stop, rate, A, CI, fixed_capital - A,
                                    <<CI * s[2] + s[1], s[2]>>)

\* the outer loop of depreciate from iteration i on; ans is a fraction
RECURSIVE DepreciateLoop(_, _, _, _, _, _, _)
DepreciateLoop(i, stop, rate, A, CI, fixed_capital, ans) ==
    IF i > stop THEN <<ans, fixed_capital>>
    ELSE IF fixed_capital < A THEN <<ans, fixed_capital>>
    ELSE LET s == DepreciateSum(1, i, rate, A)
         IN  DepreciateLoop(i + 1, stop, rate, A, CI, fixed_capital - A,
                            <<CI * s[2] + s[1], s[2]>>)

\* depreciate returning the fixed capital it was called with
depreciate_KeepsCapital(stop, rate, A, CI, fixed_capital) ==
    IF fixed_capital < A THEN <<CI, fixed_capital>>
    ELSE LET r == DepreciateLoop(1, stop, rate, A, CI, fixed_capital, <<0, 1>>)
         IN  <<RoundHalfEven(r[1][1], r[1][2]), fixed_capital>>

\* depreciate(stop, rate, A, CI, fixed_capital) -> <<new CI, new fixed capital>>
depreciate(stop, rate, A, CI, fixed_capital) ==
    IF fixed_capital < A THEN <<CI, fixed_capital>>
    ELSE LET r == DepreciateLoop(1, stop, rate, A, CI, fixed_capital, <<0, 1>>)
         IN  <<RoundHalfEven(r[1][1], r[1][2]), r[2]>>

\* the loop of appreciate with "ans >= A" in place of "ans > A"
RECURSIVE AppreciateLoop_AtLeast(_, _, _, _, _, _)
AppreciateLoop_AtLeast(i, stop, rate, A, ans, fixed_capital) ==
    IF i > stop THEN <<ans, fixed_capital>>
    ELSE LET f == RateFraction(rate)
             grown == <<ans[1] * (f[2] + f[1]), ans[2] * f[2]>>
         IN  IF grown[1] >= A * grown[2]
             THEN AppreciateLoop_AtLeast(i + 1, stop, rate, A,
                                         <<grown[1] - A * grown[2], grown[2]>>,
                                         fixed_capital + A)
             ELSE <<grown, fixed_capital>>

\* the loop of appreciate from iteration i on; ans is a fraction
RECURSIVE AppreciateLoop(_, _, _, _, _, _)
AppreciateLoop(i, stop, rate, A, ans, fixed_capital) ==
    IF i > stop THEN <<ans, fixed_capital>>
    ELSE LET f == RateFraction(rate)
             grown == <<ans[1] * (f[2] + f[1]), ans[2] * f[2]>>
         IN  IF grown[1] > A * grown[2]
             THEN AppreciateLoop(i + 1, stop, rate, A,
                                 <<grown[1] - A * grown[2], grown[2]>>,
                                 fixed_capital + A)
             ELSE <<grown, fixed_capital>>

\* appreciate cutting the result to four decimals instead of rounding it
appreciate_Floor(stop, rate, A, CI, fixed_capital) ==
    LET r == AppreciateLoop(1, stop, rate, A, <<CI, 1>>, fixed_capital)
    IN  <<r[1][1] \div r[1][2], r[2]>>

\* appreciate(stop, rate, A, CI, fixed_capital) -> <<new CI, new fixed capital>>
appreciate(stop, rate, A, CI, fixed_capital) ==
    LET r == AppreciateLoop(1, stop, rate, A, <<CI, 1>>, fixed_capital)
    IN  <<RoundHalfEven(r[1][1], r[1][2]), r[2]>>

\* ----- trade sizing and pricing -------------------------------------------
\* the minimum-notional comparison with "<=" in place of "<"
get_quantity_to_trade_AtMost(amortized_investment, lastPrice, step_size, min_notional) ==
    LET quantity_to_buy == (amortized_investment \div (lastPrice * step_size)) * step_size
        order_value == quantity_to_buy * lastPrice
    IN  IF order_value <= min_notional THEN <<0, order_value>>
        ELSE <<quantity_to_buy, order_value>>

\* _get_quantity_to_trade, steps 4 to the end -> <<quantity_to_buy, order_value>>
get_quantity_to_trade(amortized_investment, lastPrice, step_size, min_notional) ==
    LET quantity_to_buy == (amortized_investment \div (lastPrice * step_size)) * step_size
        order_value == quantity_to_buy * lastPrice
    IN  IF order_value < min_notional THEN <<0, order_value>>
        ELSE <<quantity_to_buy, order_value>>

\* _get_valid_price: the price floored to the tick size
_get_valid_price(tick_size, price) ==
    IF tick_size = None THEN price ELSE (price \div tick_size) * tick_size

\* the percentage move computed without abs()
RateChange_Signed(price, last_trade_price) ==
    RoundHalfEven((price - last_trade_price) * Percent * RateScale, last_trade_price)

\* run_bot: the percentage move against last_trade_price, three decimals
RateChange(price, last_trade_price) ==
    RoundHalfEven(Abs(price - last_trade_price) * Percent * RateScale, last_trade_price)

\* ----- run_bot ------------------------------------------------------------
\* _place_order returned None, or was not called
NoOrder == [side |-> "none", quantity |-> 0, price |-> 0]

\* _place_order: the exchange takes the order and answers it, or refuses it
\* -> <<order or NoOrder, orders of the exchange>>
_place_order(os, order_type, q, price, placed) ==
    IF placed
    THEN <<[side |-> order_type, quantity |-> q, price |-> price],
           [os EXCEPT ![order_type].placed = @ + 1]>>
    ELSE <<NoOrder, [os EXCEPT ![order_type].refused = @ + 1]>>

\* calls of _place_order so far, by side
Dispatched(os, side) == os[side].placed + os[side].refused

\* what one pass of the loop body leaves behind
Outcome(b, f, os, p, q, o) ==
    [bot |-> b, csv_file |-> f, orders |-> os, pc |-> p, quantity |-> q, order |-> o]

\* "if quantity > 0:" weakened to "quantity >= 0"
ShouldPlace_ZeroToo(q) == q >= 0

\* "if quantity > 0:"
ShouldPlace(q) == q > 0

\* AfterOrder without its "if order:": the update and the save done whatever
\* _place_order returned
AfterOrder_Unconditional(b, f, o, price) ==
    LET b2 == [b EXCEPT !.last_trade_price = price]
    IN  <<b2, _save_state(b2, f)>>

\* "if order:" with the state update and the save that follow it
AfterOrder(b, f, o, price) ==
    IF o # NoOrder
    THEN LET b2 == [b EXCEPT !.last_trade_price = price]
         IN  <<b2, _save_state(b2, f)>>
    ELSE <<b, f>>

\* the sizing, the order and the state update of a triggered tick
\* (the same statements in the buy and in the sell branch)
Trade(side, b, f, os, price, info, lastPrice, tick_size, placed) ==
    IF info.kind = "raise" THEN Outcome(b, f, os, "raised", None, NoOrder)
    ELSE IF info.step_size = 0 THEN Outcome(b, f, os, "exit", None, NoOrder)
    ELSE LET q == get_quantity_to_trade(b.amortized_investment, lastPrice,
                                        info.step_size, info.min_notional)[1]
         IN  IF ShouldPlace(q)
             THEN LET limit_price == _get_valid_price(tick_size, price)
                      o == _place_order(os, side, q, limit_price, placed)
                      after == AfterOrder(b, f, o[1], price)
                  IN  Outcome(after[1], after[2], o[2], "loop", q, o[1])
             ELSE Outcome(b, f, os, "loop", q, NoOrder)

\* the buy branch with "break" replaced by falling through to the sleep
BuyBranch_NoBreak(b, f, os, price, info, lastPrice, tick_size, placed) ==
    IF b.fixed_capital >= b.amortized_investment
    THEN Trade("buy", b, f, os, price, info, lastPrice, tick_size, placed)
    ELSE Outcome(b, f, os, "loop", None, NoOrder)

\* the buy branch of the loop body
BuyBranch(b, f, os, price, info, lastPrice, tick_size, placed) ==
    IF b.fixed_capital >= b.amortized_investment
    THEN Trade("buy", b, f, os, price, info, lastPrice, tick_size, placed)
    ELSE Outcome(b, f, os, "halted", None, NoOrder)

\* the sell branch of the loop body
SellBranch(b, f, os, price, info, lastPrice, tick_size, placed) ==
    IF b.current_investment >= b.amortized_investment
    THEN Trade("sell", b, f, os, price, info, lastPrice, tick_size, placed)
    ELSE Outcome(b, f, os, "halted", None, NoOrder)

\* the branch the loop body takes on a price
Decide(b, price) ==
    IF price = None THEN "NoPrice"
    ELSE LET rate == RateChange(price, b.last_trade_price)
         IN  IF price < b.last_trade_price /\ rate >= b.rate THEN "Buy"
             ELSE IF price > b.last_trade_price /\ rate >= b.rate THEN "Sell"
             ELSE "Hold"

\* no pure function is being called
NoCall == [fn |-> "none", args |-> <<>>, result |-> <<>>, done |-> FALSE]

Init ==
    /\ cfg \in Configs
    /\ csv_file \in {NoFile, [exists |-> TRUE, lines |-> <<Header>>]}
    /\ \E connected \in BOOLEAN : bot = TradingBot(cfg, connected, csv_file)
    /\ pc = "start"
    /\ current_price = None
    /\ decision = "None"
    /\ quantity = None
    /\ order = NoOrder
    /\ orders = [buy |-> [placed |-> 0, refused |-> 0],
                 sell |-> [placed |-> 0, refused |-> 0]]
    /\ ticks = 0
    /\ restarts = 0
    /\ call = NoCall

\* a new process: TradingBot(...) constructed on the store as it is
Restart ==
    /\ restarts < MaxRestarts
    /\ \E c \in Configs, connected \in BOOLEAN :
          /\ cfg' = c
          /\ bot' = TradingBot(c, connected, csv_file)
    /\ pc' = "start"
    /\ current_price' = None
    /\ decision' = "None"
    /\ quantity' = None
    /\ order' = NoOrder
    /\ restarts' = restarts + 1
    /\ UNCHANGED <<csv_file, orders, ticks, call>>

\* run_bot: "while not self.client" retries the connection
RunBotConnect ==
    /\ pc = "start"
    /\ ~bot.client
    /\ \E connected \in BOOLEAN : bot' = [bot EXCEPT !.client = connected]
    /\ UNCHANGED <<cfg, csv_file, pc, current_price, decision, quantity, order,
                   orders, ticks, restarts, call>>

\* the starting price taken without "if self.last_trade_price is None": a
\* loaded last_trade_price is overwritten by the first price
RunBotFirstPrice_Overwrite ==
    /\ pc = "start"
    /\ bot.client
    /\ \E price \in Prices \cup {None} :
          /\ current_price' = price
          /\ IF price # None
             THEN /\ bot' = [bot EXCEPT !.last_trade_price = price]
                  /\ pc' = "loop"
             ELSE /\ bot' = bot
                  /\ pc' = "returned"
    /\ UNCHANGED <<cfg, csv_file, decision, quantity, order, orders, ticks, restarts,
                   call>>

\* run_bot: "if self.last_trade_price is None" takes the starting price
RunBotFirstPrice ==
    /\ pc = "start"
    /\ bot.client
    /\ IF bot.last_trade_price = None
       THEN \E price \in Prices \cup {None} :
               /\ current_price' = price
               /\ IF price # None
                  THEN /\ bot' = [bot EXCEPT !.last_trade_price = price]
                       /\ pc' = "loop"
                  ELSE /\ bot' = bot
                       /\ pc' = "returned"
       ELSE UNCHANGED <<bot, current_price>> /\ pc' = "loop"
    /\ UNCHANGED <<cfg, csv_file, decision, quantity, order, orders, ticks, restarts,
                   call>>

\* the loop body with "return" in place of the "continue" of a tick without
\* a price
RunBotTick_ReturnsOnNoPrice ==
    /\ pc = "loop"
    /\ ticks < MaxTicks
    /\ \E price \in Prices \cup {None}, info \in SymbolInfos, lastPrice \in LastPrices,
          tick_size \in TickSizes, placed \in BOOLEAN :
          LET d == Decide(bot, price)
              out == IF d = "Buy"
                     THEN BuyBranch(bot, csv_file, orders, price, info, lastPrice,
                                    tick_size, placed)
                     ELSE IF d = "Sell"
                     THEN SellBranch(bot, csv_file, orders, price, info, lastPrice,
                                     tick_size, placed)
                     ELSE IF d = "NoPrice"
                     THEN Outcome(bot, csv_file, orders, "returned", None, NoOrder)
                     ELSE Outcome(bot, csv_file, orders, "loop", None, NoOrder)
          IN  /\ current_price' = price
              /\ decision' = d
              /\ bot' = out.bot
              /\ csv_file' = out.csv_file
              /\ orders' = out.orders
              /\ pc' = out.pc
              /\ quantity' = out.quantity
              /\ order' = out.order
    /\ ticks' = ticks + 1
    /\ UNCHANGED <<cfg, restarts, call>>

\* run_bot: one pass of the "while True" body
RunBotTick ==
    /\ pc = "loop"
    /\ ticks < MaxTicks
    /\ \E price \in Prices \cup {None}, info \in SymbolInfos, lastPrice \in LastPrices,
          tick_size \in TickSizes, placed \in BOOLEAN :
          LET d == Decide(bot, price)
              out == IF d = "Buy"
                     THEN BuyBranch(bot, csv_file, orders, price, info, lastPrice,
                                    tick_size, placed)
                     ELSE IF d = "Sell"
                     THEN SellBranch(bot, csv_file, orders, price, info, lastPrice,
                                     tick_size, placed)
                     ELSE Outcome(bot, csv_file, orders, "loop", None, NoOrder)
          IN  /\ current_price' = price
              /\ decision' = d
              /\ bot' = out.bot
              /\ csv_file' = out.csv_file
              /\ orders' = out.orders
              /\ pc' = out.pc
              /\ quantity' = out.quantity
              /\ order' = out.order
    /\ ticks' = ticks + 1
    /\ UNCHANGED <<cfg, restarts, call>>

Next == Restart \/ RunBotConnect \/ RunBotFirstPrice \/ RunBotTick

Spec == Init /\ [][Next]_vars

\* ===== properties of TradingBot.run_bot ====================================
\* a step of the running process that is one pass of the loop body
TickStep == pc = "loop" /\ ticks' = ticks + 1 /\ restarts' = restarts

\* _place_order was called in this step
DispatchStep(side) == Dispatched(orders', side) # Dispatched(orders, side)

\* C1: once the first price is taken, the ledger changes and a record is
\* appended only in a tick whose order was placed; a tick whose order was
\* refused leaves ledger and store as they were and the loop goes on.
C1_MutationOnlyOnPlacedOrder ==
    [][ (pc = "loop" /\ restarts' = restarts) =>
          /\ (Ledger(bot') # Ledger(bot) \/ csv_file' # csv_file)
                => (TickStep /\ order' # NoOrder
                      /\ (orders'.buy.placed + orders'.sell.placed
                            = orders.buy.placed + orders.sell.placed + 1))
          /\ (orders'.buy.refused + orders'.sell.refused
                # orders.buy.refused + orders.sell.refused)
                => (Ledger(bot') = Ledger(bot) /\ csv_file' = csv_file /\ pc' = "loop")
      ]_vars

\* C1 witness: a tick whose order was refused, the loop still running
C1_Witness ==
    /\ pc = "loop"
    /\ decision \in {"Buy", "Sell"}
    /\ quantity # None /\ quantity > 0
    /\ order = NoOrder
    /\ orders.buy.refused + orders.sell.refused > 0

\* C2: after a triggered trade whose order was placed, (current_investment,
\* fixed_capital) are the result of the amortization step on the ledger before
\* the trade: depreciate(stop=1) for a buy, appreciate(stop=1) for a sell,
\* with the rate computed in that tick.
C2_LedgerFollowsAmortization ==
    [][ (TickStep /\ order' # NoOrder) =>
          LET rate == RateChange(current_price', bot.last_trade_price)
              step == IF order'.side = "buy"
                      THEN depreciate(1, rate, bot.amortized_investment,
                                      bot.current_investment, bot.fixed_capital)
                      ELSE appreciate(1, rate, bot.amortized_investment,
                                      bot.current_investment, bot.fixed_capital)
          IN  <<bot'.current_investment, bot'.fixed_capital>> = step
      ]_vars

\* C3: in a run started with fixed capital F, current investment 0 and unit
\* amount A, placed buys minus placed sells never exceed floor(F / A).
C3_NeverCommitsMoreThanFixedCapital ==
    (restarts = 0 /\ cfg.current_investment = 0 /\ cfg.amortized_investment > 0)
        => orders.buy.placed - orders.sell.placed
              <= cfg.fixed_capital \div cfg.amortized_investment

\* ledger, store and exchange are as before the step
Untouched == Ledger(bot') = Ledger(bot) /\ csv_file' = csv_file /\ orders' = orders

\* C4: Halted is terminal and no crash: a buy trigger that finds
\* fixed_capital < A, or a sell trigger that finds the investment insufficient,
\* ends the loop normally with nothing dispatched or changed, and for the rest
\* of the run nothing is dispatched, changed or appended.
C4_HaltedIsTerminal ==
    [][ restarts' = restarts =>
          /\ (TickStep /\ decision' = "Buy"
                /\ bot.fixed_capital < bot.amortized_investment)
                => (pc' = "halted" /\ Untouched /\ order' = NoOrder)
          /\ (TickStep /\ decision' = "Sell"
                /\ bot.current_investment < bot.amortized_investment)
                => (pc' = "halted" /\ Untouched /\ order' = NoOrder)
          /\ pc = "halted" => (pc' = "halted" /\ Untouched)
      ]_vars

\* C4 witness: run_bot has left the loop on a buy trigger without capital
C4_Witness ==
    /\ pc = "halted"
    /\ decision = "Buy"
    /\ bot.fixed_capital < bot.amortized_investment

\* the percentage move |price - last| / last * 100, rounded to three decimals
\* (ties to even), is at least the threshold r
C5_RoundedMoveAtLeast(price, last, r) ==
    LET n == 2 * Abs(price - last) * Percent * RateScale
        m == (2 * r - 1) * last
    IN  n > m \/ (n = m /\ r % 2 = 0)

\* C5 (as amended): with the move rounded to three decimals, a buy is
\* dispatched only on a fall, a sell only on a rise, of at least rate_threshold;
\* a smaller move dispatches nothing and changes nothing; a fall of at least
\* the threshold takes the Buy branch, a rise the Sell branch.
C5_TriggerOnRoundedMove ==
    [][ (TickStep /\ current_price' # None) =>
          LET price == current_price'
              last == bot.last_trade_price
              met == C5_RoundedMoveAtLeast(price, last, bot.rate)
          IN  /\ DispatchStep("buy") => (price < last /\ met)
              /\ DispatchStep("sell") => (price > last /\ met)
              /\ ~met => (decision' = "Hold" /\ Untouched /\ pc' = "loop")
              /\ (price < last /\ met) => decision' = "Buy"
              /\ (price > last /\ met) => decision' = "Sell"
      ]_vars

\* C5 witness: threshold 5, last price 100, price 94: the buy is dispatched
C5_Witness ==
    /\ ticks = 1
    /\ bot.rate = 5000
    /\ current_price = 94
    /\ decision = "Buy"
    /\ order # NoOrder /\ order.side = "buy"
    /\ bot.last_trade_price = 94

\* C5 (as claimed): the same with the exact, unrounded percentage move
C5_TriggerOnExactMove ==
    [][ (TickStep /\ current_price' # None) =>
          LET price == current_price'
              last == bot.last_trade_price
              met == Abs(price - last) * Percent * RateScale >= bot.rate * last
          IN  /\ DispatchStep("buy") => (price < last /\ met)
              /\ DispatchStep("sell") => (price > last /\ met)
      ]_vars

\* C6: on a trigger the bot halts exactly when the amortization step would
\* signal insufficiency: a buy iff fixed_capital < A, a sell iff
\* appreciate(stop=1) with the computed rate recovers nothing.
C6_HaltsIffAmortizationInsufficient ==
    [][ TickStep =>
          LET rate == RateChange(current_price', bot.last_trade_price)
              recovered == appreciate(1, rate, bot.amortized_investment,
                                      bot.current_investment, bot.fixed_capital)[2]
          IN  /\ decision' = "Buy"
                    => (pc' = "halted" <=> bot.fixed_capital < bot.amortized_investment)
              /\ decision' = "Sell"
                    => (pc' = "halted" <=> recovered = bot.fixed_capital)
      ]_vars

\* C7: when sizing returns quantity 0 on a trigger, no order is dispatched,
\* ledger and store are unchanged and the loop goes on with the old
\* last_trade_price.
C7_RejectedSizingDispatchesNothing ==
    [][ (TickStep /\ quantity' = 0) =>
          /\ decision' \in {"Buy", "Sell"}
          /\ order' = NoOrder
          /\ Untouched
          /\ bot'.last_trade_price = bot.last_trade_price
          /\ pc' = "loop"
      ]_vars

\* C7 witness: a triggered tick whose sizing returned 0
C7_Witness ==
    /\ pc = "loop"
    /\ decision \in {"Buy", "Sell"}
    /\ quantity = 0

\* C9: every mutation of the in-memory ledger is persisted before the next
\* tick is consumed: wherever run_bot waits for the next tick, a new
\* TradingBot constructed on the same store with the same arguments has the
\* same last_trade_price, current_investment and fixed_capital.
C9_RestartResumesLedger ==
    (pc = "loop" /\ decision # "None")
        => Ledger(TradingBot(cfg, bot.client, csv_file)) = Ledger(bot)

\* the last record of the store
LastRecord == Rows(csv_file)[Len(Rows(csv_file))]

\* C10 (as amended): a TradingBot constructed on a store with a record has
\* current_investment, fixed_capital and last_trade_price of the last record,
\* whatever arguments were passed, and amortized_investment and rate of the
\* arguments; constructed on a store that is absent or has no record, it has
\* the arguments' values and no last_trade_price.
C10_ConstructionLoadsLastRecord ==
    pc = "start" =>
        /\ bot.amortized_investment = cfg.amortized_investment
        /\ bot.rate = cfg.rate
        /\ IF csv_file.exists /\ Len(Rows(csv_file)) > 0
           THEN /\ bot.current_investment = Float(LastRecord.current_investment, MoneyScale)
                /\ bot.fixed_capital = Float(LastRecord.fixed_capital, MoneyScale)
                /\ bot.last_trade_price = Float(LastRecord.last_trade_price, 1)
           ELSE /\ bot.current_investment = cfg.current_investment
                /\ bot.fixed_capital = cfg.fixed_capital
                /\ bot.last_trade_price = None

\* C10 witness: a construction on a store whose last record differs from the
\* arguments passed
C10_Witness ==
    /\ pc = "start"
    /\ restarts = 1
    /\ Len(Rows(csv_file)) > 1
    /\ bot.fixed_capital # cfg.fixed_capital
    /\ bot.last_trade_price # None

\* C10 (as claimed): constructed on a store with a record, all five fields
\* equal the last record's values, whatever arguments were passed.
C10_AllFiveFieldsFromLastRecord ==
    (pc = "start" /\ csv_file.exists /\ Len(Rows(csv_file)) > 0) =>
        /\ bot.amortized_investment = Float(LastRecord.amortized_investment, MoneyScale)
        /\ bot.rate = Float(LastRecord.rate, RateScale)
        /\ bot.current_investment = Float(LastRecord.current_investment, MoneyScale)
        /\ bot.fixed_capital = Float(LastRecord.fixed_capital, MoneyScale)
        /\ bot.last_trade_price = Float(LastRecord.last_trade_price, 1)

\* ===== trade sizing as a function ==========================================
\* arguments of the sizing: amounts, prices, step sizes, minimum notionals
QtyAmounts == {5000, 10000, 100000}
QtyPrices == {3, 94, 100, 50000}
QtySteps == {1, 7, 10}
QtyMinNotionals == {0, 9990, 100000, 150000}

\* no TradingBot is running
Idle ==
    /\ cfg = [amortized_investment |-> 0, rate |-> 0, fixed_capital |-> 0,
              current_investment |-> 0]
    /\ bot = [amortized_investment |-> 0, rate |-> 0, fixed_capital |-> 0,
              last_trade_price |-> None, current_investment |-> 0, client |-> FALSE]
    /\ csv_file = NoFile
    /\ pc = "idle"
    /\ current_price = None
    /\ decision = "None"
    /\ quantity = None
    /\ order = NoOrder
    /\ orders = [buy |-> [placed |-> 0, refused |-> 0],
                 sell |-> [placed |-> 0, refused |-> 0]]
    /\ ticks = 0
    /\ restarts = 0

InitQty ==
    /\ Idle
    /\ \E a \in QtyAmounts, p \in QtyPrices, st \in QtySteps, mn \in QtyMinNotionals :
          call = [fn |-> "get_quantity_to_trade", args |-> <<a, p, st, mn>>,
                  result |-> <<>>, done |-> FALSE]

\* _get_quantity_to_trade runs on its arguments
QtyCall ==
    /\ call.fn = "get_quantity_to_trade"
    /\ ~call.done
    /\ call' = [call EXCEPT
                  !.result = get_quantity_to_trade(call.args[1], call.args[2],
                                                   call.args[3], call.args[4]),
                  !.done = TRUE]
    /\ UNCHANGED <<cfg, bot, csv_file, pc, current_price, decision, quantity, order,
                   orders, ticks, restarts>>

NextQty == QtyCall

SpecQty == InitQty /\ [][NextQty]_vars

\* C8 (as amended): the quantity is 0 or floor((A / price) / step) * step, a
\* whole multiple of step with quantity * price <= A, and it is 0 exactly when
\* the floored quantity is 0 or its order value is below min_notional.
C8_QuantityIsFlooredOrZero ==
    (call.fn = "get_quantity_to_trade" /\ call.done) =>
        LET A == call.args[1]
            price == call.args[2]
            step == call.args[3]
            min_notional == call.args[4]
            q == call.result[1]
            n == A \div (price * step)
        IN  /\ n >= 0
            /\ n * step * price <= A
            /\ A < (n + 1) * step * price
            /\ q \in {0, n * step}
            /\ q % step = 0
            /\ q * price <= A
            /\ q = 0 <=> (n = 0 \/ n * step * price < min_notional)

\* C8 witness: A = 10, price = 50000, step = 0.0001, min_notional = 10
\* gives 0.0002 with order value 10.0
C8_Witness ==
    /\ call.fn = "get_quantity_to_trade" /\ call.done
    /\ call.args = <<100000, 50000, 1, 100000>>
    /\ call.result = <<2, 100000>>

\* C8 (as claimed): the quantity is 0 exactly when the order value of the
\* floored quantity is below min_notional.
C8_ZeroExactlyBelowMinNotional ==
    (call.fn = "get_quantity_to_trade" /\ call.done) =>
        LET A == call.args[1]
            price == call.args[2]
            step == call.args[3]
            min_notional == call.args[4]
            q == call.result[1]
            floored == (A \div (price * step)) * step
        IN  /\ q \in {0, floored}
            /\ q % step = 0
            /\ q * price <= A
            /\ q = 0 <=> floored * price < min_notional

\* ===== the state store as functions ========================================
\* saves explored on one store
MaxSaves == 3
\* constructor arguments of the processes that use the store
StoreConfigs ==
    { [amortized_investment |-> 10000, rate |-> 5000,
       fixed_capital |-> 10000, current_investment |-> 0],
      [amortized_investment |-> 5000, rate |-> 12766,
       fixed_capital |-> 0, current_investment |-> 9500] }
\* ledgers in memory when _save_state is called:
\* <<last_trade_price, current_investment, fixed_capital>>
StoreLedgers == { <<100, 0, 10000>>, <<94, 123456, 9876543>>, <<106, 9500, 1>> }

InitStore ==
    /\ cfg \in StoreConfigs
    /\ csv_file \in {NoFile, [exists |-> TRUE, lines |-> <<Header>>]}
    /\ bot = TradingBot(cfg, TRUE, csv_file)
    /\ pc = "store"
    /\ current_price = None
    /\ decision = "None"
    /\ quantity = None
    /\ order = NoOrder
    /\ orders = [buy |-> [placed |-> 0, refused |-> 0],
                 sell |-> [placed |-> 0, refused |-> 0]]
    /\ ticks = 0
    /\ restarts = 0
    /\ call = [fn |-> "_load_state", args |-> <<>>, result |-> <<>>, done |-> TRUE]

\* _save_state called with a ledger in memory
StoreSave ==
    /\ pc = "store"
    /\ ticks < MaxSaves
    /\ \E l \in StoreLedgers :
          LET b == [bot EXCEPT !.last_trade_price = l[1],
                               !.current_investment = l[2],
                               !.fixed_capital = l[3]]
          IN  /\ bot' = b
              /\ csv_file' = _save_state(b, csv_file)
    /\ ticks' = ticks + 1
    /\ call' = [call EXCEPT !.fn = "_save_state"]
    /\ UNCHANGED <<cfg, pc, current_price, decision, quantity, order, orders, restarts>>

\* _load_state called by the construction of a new TradingBot
StoreLoad ==
    /\ pc = "store"
    /\ call.fn = "_save_state"
    /\ \E c \in StoreConfigs :
          /\ cfg' = c
          /\ bot' = TradingBot(c, TRUE, csv_file)
    /\ call' = [call EXCEPT !.fn = "_load_state"]
    /\ UNCHANGED <<csv_file, pc, current_price, decision, quantity, order, orders,
                   ticks, restarts>>

NextStore == StoreSave \/ StoreLoad

SpecStore == InitStore /\ [][NextStore]_vars

\* C11: _save_state is append-only and round-trips: a save adds one record
\* with the ledger in memory at the end of the store, leaves every line that
\* was there in its place, writes the header only when the store is new, and
\* a load right after it yields the saved current_investment, fixed_capital
\* and last_trade_price.
C11_SaveAppendsAndRoundTrips ==
    [][ ticks' = ticks + 1 =>
          LET old == csv_file.lines
              new == csv_file'.lines
              rec == new[Len(new)]
          IN  /\ csv_file'.exists
              /\ Len(new) = (IF csv_file.exists THEN Len(old) + 1 ELSE 2)
              /\ \A k \in 1..Len(old) : new[k] = old[k]
              /\ new[1] = Header
              /\ \A k \in 2..Len(new) : new[k] # Header
              /\ Float(rec.last_trade_price, 1) = bot'.last_trade_price
              /\ Float(rec.current_investment, MoneyScale) = bot'.current_investment
              /\ Float(rec.fixed_capital, MoneyScale) = bot'.fixed_capital
              /\ Float(rec.amortized_investment, MoneyScale) = bot'.amortized_investment
              /\ Float(rec.rate, RateScale) = bot'.rate
              /\ \A c \in StoreConfigs :
                    Ledger(TradingBot(c, TRUE, csv_file')) = Ledger(bot')
      ]_vars

\* C11 witness: a third record with decimals was added to a store and a new
\* process, constructed with other arguments, has loaded it
C11_Witness ==
    /\ pc = "store"
    /\ call.fn = "_load_state"
    /\ Len(Rows(csv_file)) = 3
    /\ Ledger(bot) = <<94, 123456, 9876543>>
    /\ cfg.current_investment # bot.current_investment
    /\ csv_file.lines[2] # csv_file.lines[4]

\* ===== the amortization engine as functions ================================
\* largest "stop" (number of iterations asked for) of a call
MaxStop == 2
\* calls made one after the other on the running (CI, fixed_capital)
MaxCalls == 2

AmortStops == 0..MaxStop
\* the rates tried with a unit amount A: 0 and 10 percent with A = 10,
\* 3.125 percent with A = 1 and A = 0.001
AmortRates(A) == IF A = 100000 THEN {0, 10000} ELSE {3125}
\* arguments <<stop, rate, A, CI, fixed_capital>> of a first call
AmortArgs ==
    { <<stop, rate, 100000, CI, fixed_capital>> :
          stop \in AmortStops, rate \in AmortRates(100000),
          CI \in {0, 50000, 100000}, fixed_capital \in {0, 9900000, 10000000} }
    \cup
    { <<stop, rate, A, CI, fixed_capital>> :
          stop \in AmortStops, rate \in AmortRates(10000), A \in {10, 10000},
          CI \in {0, 5000}, fixed_capital \in {10000, 20000} }
AmortFns == {"depreciate", "appreciate"}

\* the function fn of analysis_simulation.py applied to its arguments
Amortize(fn, args) ==
    IF fn = "depreciate"
    THEN depreciate(args[1], args[2], args[3], args[4], args[5])
    ELSE appreciate(args[1], args[2], args[3], args[4], args[5])

InitAmort ==
    /\ Idle
    /\ \E fn \in AmortFns, args \in AmortArgs :
          call = [fn |-> fn, args |-> args, result |-> <<>>, done |-> FALSE,
                  n |-> 1, prev |-> NoCall]

\* depreciate or appreciate runs on its arguments
AmortCall ==
    /\ call.fn \in AmortFns
    /\ ~call.done
    /\ call' = [call EXCEPT !.result = Amortize(call.fn, call.args), !.done = TRUE]
    /\ UNCHANGED <<cfg, bot, csv_file, pc, current_price, decision, quantity, order,
                   orders, ticks, restarts>>

\* the caller passes the returned (CI, fixed_capital) to the next call
AmortAgain ==
    /\ call.fn \in AmortFns
    /\ call.done
    /\ call.n < MaxCalls
    /\ \E fn \in AmortFns, stop \in AmortStops, rate \in AmortRates(call.args[3]) :
          call' = [fn |-> fn,
                   args |-> <<stop, rate, call.args[3], call.result[1], call.result[2]>>,
                   result |-> <<>>, done |-> FALSE, n |-> call.n + 1,
                   prev |-> [fn |-> call.fn, args |-> call.args,
                             result |-> call.result, done |-> TRUE]]
    /\ UNCHANGED <<cfg, bot, csv_file, pc, current_price, decision, quantity, order,
                   orders, ticks, restarts>>

NextAmort == AmortCall \/ AmortAgain

SpecAmort == InitAmort /\ [][NextAmort]_vars

\* a call of fn has returned
Returned(fn) == call.fn = fn /\ call.done

\* C12: with stop = 0 both functions return (CI, fixed_capital) as passed.
C12_StopZeroReturnsInputs ==
    (call.fn \in AmortFns /\ call.done /\ call.args[1] = 0)
        => call.result = <<call.args[4], call.args[5]>>


\* the units depreciate invests: k = min(stop, floor(fixed_capital / A))
C13_Units(stop, A, fixed_capital) ==
    IF stop < fixed_capital \div A THEN stop ELSE fixed_capital \div A

\* sum over j = 1..k of A * ((100 - rate) / 100)^(j - 1) in closed form, as
\* the numerator over q^(k-1), where (100 - rate) / 100 = p / q:
\* A * (q^k - p^k) / (q - p), or k * A when rate = 0
C13_SumNumerator(k, rate, A) ==
    LET p == RateFraction(rate)[2] - RateFraction(rate)[1]
        q == RateFraction(rate)[2]
    IN  IF k = 0 THEN 0
        ELSE IF p = q THEN k * A
        ELSE (A * (Pow(q, k) - Pow(p, k))) \div (q - p)

\* C13 (as amended): depreciate with stop >= 1 and A > 0 invests
\* k = min(stop, floor(fixed_capital / A)) units: it returns
\* fixed_capital - k * A and CI + sum over j = 1..k of
\* A * ((100 - rate) / 100)^(j - 1) rounded to four decimals; with
\* fixed_capital < A it returns its inputs, with stop = 1 and
\* fixed_capital >= A it returns (CI + A, fixed_capital - A), with rate = 0
\* it returns CI + k * A.
C13_DepreciateInvestsUnits ==
    (Returned("depreciate") /\ call.args[1] >= 1 /\ call.args[3] > 0) =>
        LET stop == call.args[1]
            rate == call.args[2]
            A == call.args[3]
            CI == call.args[4]
            fixed_capital == call.args[5]
            k == C13_Units(stop, A, fixed_capital)
            den == Pow(RateFraction(rate)[2], IF k = 0 THEN 0 ELSE k - 1)
        IN  /\ call.result[2] = fixed_capital - k * A
            /\ call.result[1]
                 = RoundHalfEven(CI * den + C13_SumNumerator(k, rate, A), den)
            /\ fixed_capital < A => call.result = <<CI, fixed_capital>>
            /\ (stop = 1 /\ fixed_capital >= A)
                  => call.result = <<CI + A, fixed_capital - A>>
            /\ rate = 0 => call.result[1] = CI + k * A

\* C13 witness: depreciate(2, 3.125, 1, 0, 2) returns (1.9688, 0): the sum
\* 1 + 0.96875 rounded to four decimals
C13_Witness ==
    /\ Returned("depreciate")
    /\ call.args = <<2, 3125, 10000, 0, 20000>>
    /\ call.result = <<19688, 0>>

\* C13 (as claimed): the returned investment is the sum itself
C13_DepreciateReturnsExactSum ==
    (Returned("depreciate") /\ call.args[1] >= 1 /\ call.args[3] > 0) =>
        LET stop == call.args[1]
            rate == call.args[2]
            A == call.args[3]
            CI == call.args[4]
            fixed_capital == call.args[5]
            k == C13_Units(stop, A, fixed_capital)
            den == Pow(RateFraction(rate)[2], IF k = 0 THEN 0 ELSE k - 1)
        IN  /\ call.result[2] = fixed_capital - k * A
            /\ call.result[1] * den = CI * den + C13_SumNumerator(k, rate, A)


\* the running investment after i recoveries, CI * f^i - A * (f^(i-1) + ... + 1)
\* with f = 1 + rate/100 = g / q, as the numerator over q^i
RECURSIVE C14_AfterRecoveries(_, _, _, _)
C14_AfterRecoveries(i, rate, A, CI) ==
    LET q == RateFraction(rate)[2]
        g == RateFraction(rate)[2] + RateFraction(rate)[1]
    IN  IF i = 0 THEN CI
        ELSE C14_AfterRecoveries(i - 1, rate, A, CI) * g - A * Pow(q, i)

\* C14: appreciate iterates at most stop times; an iteration multiplies the
\* running investment by 1 + rate/100 and, when the grown value is strictly
\* above A, takes A out of it and adds A to fixed_capital, and otherwise ends
\* the call with fixed_capital as it is; so fixed_capital grows by A per
\* recovery, and with rate = 0 there is a recovery only if the investment
\* already exceeds A.
C14_AppreciateRecoversUnits ==
    (Returned("appreciate") /\ call.args[3] > 0) =>
        LET stop == call.args[1]
            rate == call.args[2]
            A == call.args[3]
            CI == call.args[4]
            fixed_capital == call.args[5]
            q == RateFraction(rate)[2]
            g == RateFraction(rate)[2] + RateFraction(rate)[1]
            m == (call.result[2] - fixed_capital) \div A
            Grown(i) == C14_AfterRecoveries(i, rate, A, CI) * g
        IN  /\ m \in 0..stop
            /\ call.result[2] = fixed_capital + m * A
            /\ \A i \in 0..(m - 1) : Grown(i) > A * Pow(q, i + 1)
            /\ m < stop => /\ Grown(m) <= A * Pow(q, m + 1)
                           /\ call.result[1] = RoundHalfEven(Grown(m), Pow(q, m + 1))
            /\ m = stop
                  => call.result[1]
                       = RoundHalfEven(C14_AfterRecoveries(m, rate, A, CI), Pow(q, m))
            /\ (rate = 0 /\ stop >= 1) => (m >= 1 <=> CI > A)

\* C14 witness: appreciate(1, 10, 10, 10, 990) returns (1.0, 1000.0)
C14_Witness ==
    /\ Returned("appreciate")
    /\ call.args = <<1, 10000, 100000, 100000, 9900000>>
    /\ call.result = <<10000, 10000000>>


\* the growth appreciate applies in n multiplications: the sum over
\* i = 0..n-1 of rate/100 times the running investment after i recoveries,
\* as the numerator over q^n
RECURSIVE C15_GrowthNumerator(_, _, _, _, _)
C15_GrowthNumerator(i, n, rate, A, CI) ==
    LET q == RateFraction(rate)[2]
    IN  IF i >= n THEN 0
        ELSE C14_AfterRecoveries(i, rate, A, CI) * RateFraction(rate)[1]
                 * Pow(q, n - 1 - i)
               + C15_GrowthNumerator(i + 1, n, rate, A, CI)

\* C15 (as amended): a depreciate call with stop >= 1 that invests k units
\* returns new_CI + new_fixed_capital = CI + fixed_capital when k <= 1 or
\* rate = 0, and otherwise CI + fixed_capital less the decay of the later
\* units, the sum over j = 1..k of A * (1 - ((100 - rate) / 100)^(j - 1)),
\* with the investment rounded to four decimals; an appreciate call returns
\* CI + fixed_capital plus the growth of its multiplications, the investment
\* rounded to four decimals.
C15_TotalAfterOneCall ==
    (call.fn \in AmortFns /\ call.done /\ call.args[3] > 0) =>
        LET stop == call.args[1]
            rate == call.args[2]
            A == call.args[3]
            CI == call.args[4]
            fixed_capital == call.args[5]
            total == call.result[1] + call.result[2]
            q == RateFraction(rate)[2]
            k == C13_Units(stop, A, fixed_capital)
            kden == Pow(q, IF k = 0 THEN 0 ELSE k - 1)
            m == (call.result[2] - fixed_capital) \div A
            n == IF m < stop THEN m + 1 ELSE m
        IN  /\ (call.fn = "depreciate" /\ stop >= 1) =>
                 /\ (k <= 1 \/ rate = 0) => total = CI + fixed_capital
                 /\ total <= CI + fixed_capital
                 /\ (k >= 2 /\ rate > 0) =>
                       2 * Abs((CI + fixed_capital - total) * kden
                                 - (k * A * kden - C13_SumNumerator(k, rate, A)))
                          <= kden
                 /\ total = fixed_capital - k * A
                      + RoundHalfEven(CI * kden + C13_SumNumerator(k, rate, A), kden)
            /\ call.fn = "appreciate" =>
                 /\ call.result[2] = fixed_capital + m * A
                 /\ call.result[1]
                      = RoundHalfEven((CI - m * A) * Pow(q, n)
                                        + C15_GrowthNumerator(0, n, rate, A, CI),
                                      Pow(q, n))
                 /\ total >= CI + fixed_capital
                 /\ (rate = 0 \/ stop = 0) => total = CI + fixed_capital

\* C15 witness: depreciate(2, 10, 10, 0, 1000) returns (19.0, 980.0), 999 in
\* all
C15_Witness ==
    /\ Returned("depreciate")
    /\ call.args = <<2, 10000, 100000, 0, 10000000>>
    /\ call.result = <<190000, 9800000>>

\* C15 (as claimed), for the calls with stop >= 1: a depreciate call returns
\* new_CI + new_fixed_capital = CI + fixed_capital, an appreciate call at
\* least that
C15_DepreciateConservesTotal ==
    (call.fn \in AmortFns /\ call.done /\ call.args[1] >= 1) =>
        /\ call.fn = "depreciate"
              => call.result[1] + call.result[2] = call.args[4] + call.args[5]
        /\ call.fn = "appreciate"
              => call.result[1] + call.result[2] >= call.args[4] + call.args[5]


\* ===== the ledger in the trading loop and under the engine =================
\* a run of run_bot, or a sequence of depreciate and appreciate calls
InitLedger == Init \/ InitAmort

NextLedger ==
    \/ call = NoCall /\ (Restart \/ RunBotConnect \/ RunBotFirstPrice \/ RunBotTick)
    \/ AmortCall
    \/ AmortAgain

SpecLedger == InitLedger /\ [][NextLedger]_vars

C17_RoundTripGrowsInvestment ==
    (/\ Returned("appreciate") /\ call.prev.fn = "depreciate"
     /\ call.args[1] = 1 /\ call.prev.args[1] = 1
     /\ call.args[2] = call.prev.args[2]
     /\ call.prev.args[3] > 0 /\ call.prev.args[5] >= call.prev.args[3]) =>
        LET rate == call.prev.args[2]
            A == call.prev.args[3]
            CI == call.prev.args[4]
            fixed_capital == call.prev.args[5]
            r == RateFraction(rate)
        IN  /\ rate # 0 =>
                 /\ call.result
                      = <<RoundHalfEven(CI * r[2] + r[1] * (CI + A), r[2]), fixed_capital>>
                 /\ 2 * r[1] * (CI + A) > r[2] => call.result # <<CI, fixed_capital>>
            /\ (rate = 0 /\ CI > 0) => call.result = <<CI, fixed_capital>>

\* C17 witness: (0, 1000) with A = 10 and rate 10 goes to (10, 990) and
\* comes back as (1.0, 1000.0)
C17_Witness ==
    /\ Returned("appreciate")
    /\ call.prev.fn = "depreciate"
    /\ call.prev.args = <<1, 10000, 100000, 0, 10000000>>
    /\ call.args = <<1, 10000, 100000, 100000, 9900000>>
    /\ call.result = <<10000, 10000000>>

\* C17 (as claimed): with rate # 0 the round trip never returns the original
\* pair
C17_RoundTripNeverIdentity ==
    (/\ Returned("appreciate") /\ call.prev.fn = "depreciate"
     /\ call.args[1] = 1 /\ call.prev.args[1] = 1
     /\ call.args[2] = call.prev.args[2]
     /\ call.prev.args[3] > 0 /\ call.prev.args[5] >= call.prev.args[3]
     /\ call.args[2] # 0)
        => call.result # <<call.prev.args[4], call.prev.args[5]>>

\* ===== the first price and failures in run_bot =============================
\* C18: when no last_trade_price was loaded, the first observed price becomes
\* last_trade_price with fixed_capital and current_investment untouched and
\* no order dispatched, and every later tick is measured against it until a
\* trade succeeds; a last_trade_price loaded from the store is not
\* overwritten by the first tick.
C18_FirstPriceBecomesReference ==
    [][ restarts' = restarts =>
          /\ (pc = "start" /\ pc' = "loop") =>
                /\ bot.last_trade_price = None
                      => (current_price' # None
                            /\ bot'.last_trade_price = current_price')
                /\ bot.last_trade_price # None
                      => bot'.last_trade_price = bot.last_trade_price
                /\ bot'.fixed_capital = bot.fixed_capital
                /\ bot'.current_investment = bot.current_investment
                /\ orders' = orders
                /\ order' = NoOrder
                /\ csv_file' = csv_file
          /\ (TickStep /\ order' = NoOrder)
                => bot'.last_trade_price = bot.last_trade_price
          /\ (TickStep /\ decision' \in {"Buy", "Sell"})
                => C5_RoundedMoveAtLeast(current_price', bot.last_trade_price, bot.rate)
      ]_vars

\* C18 witness: no record in the store, the first price 100 was taken, and a
\* tick at 97 was measured against it and held
C18_Witness ==
    /\ pc = "loop"
    /\ restarts = 0
    /\ ticks = 1
    /\ Len(Rows(csv_file)) = 0
    /\ bot.last_trade_price = 100
    /\ current_price = 97
    /\ decision = "Hold"

\* C19 (as amended): in the loop, a tick without a price never ends the run:
\* it dispatches nothing, leaves ledger and store unchanged and the loop
\* asks again, and a later tick with a price is processed; a failure to
\* obtain the first price ends run_bot, with nothing dispatched and ledger and
\* store unchanged, for good.
C19_NoPriceEndsOnlyTheFirstFetch ==
    [][ restarts' = restarts =>
          /\ (TickStep /\ current_price' = None)
                => (pc' = "loop" /\ decision' = "NoPrice" /\ order' = NoOrder
                      /\ Untouched)
          /\ (TickStep /\ decision = "NoPrice" /\ current_price' # None)
                => decision' \in {"Buy", "Sell", "Hold"}
          /\ (pc = "start" /\ pc' # "start"
                /\ bot.last_trade_price = None /\ current_price' = None)
                => (pc' = "returned" /\ Untouched)
          /\ pc = "returned" => (pc' = "returned" /\ Untouched)
          /\ pc' = "returned"
                => (pc \in {"start", "returned"} /\ bot.last_trade_price = None)
      ]_vars

\* C19 witness: a tick of the loop got no price and the loop is still running
C19_Witness ==
    /\ pc = "loop"
    /\ ticks >= 2
    /\ decision = "NoPrice"
    /\ current_price = None
    /\ order = NoOrder

\* C19 (as claimed): a failure to obtain the price, the first price included,
\* never ends the run
C19_NoPriceNeverEndsRun ==
    [][ (restarts' = restarts /\ pc \in {"start", "loop"} /\ pc' # "start"
           /\ current_price' = None)
          => (pc' = "loop" /\ Untouched)
      ]_vars

\* C20: a failure raised while a triggered tick is processed (get_symbol_info
\* or get_ticker failing inside _get_quantity_to_trade, or no step size) is
\* contained in that tick: the loop goes on with ledger and store unchanged.
C20_SizingFailureContained ==
    [][ (TickStep /\ decision' \in {"Buy", "Sell"} /\ quantity' = None
           /\ (decision' = "Buy" => bot.fixed_capital >= bot.amortized_investment)
           /\ (decision' = "Sell"
                 => bot.current_investment >= bot.amortized_investment))
          => (pc' = "loop" /\ Untouched)
      ]_vars

\* ===== trade.TradeBot (trade.py) ===========================================
\* The passes of TradeBot's "while(True)" body, trade.py:172-239, with
\* "client" naming the module's connection, which is what get_current_price,
\* buy and sell read (trade.py:26, 34, 46).  As trade.py stands, "client" is
\* assigned at line 167 and is therefore local to TradeBot: the test at line
\* 165 raises UnboundLocalError before the first pass.

\* passes of the loop body explored
MaxPasses == 3

\* prices get_symbol_ticker can report
TradePrices == {80, 96, 100, 125}
\* cfg.A, cfg.R, cfg.FIXED_CAPITAL, cfg.CI of the config module
TradeConfigs ==
    { [amortized_investment |-> 10000, rate |-> 20000,
       fixed_capital |-> 15000, current_investment |-> 0],
      [amortized_investment |-> 10000, rate |-> 20000,
       fixed_capital |-> 30000, current_investment |-> 0],
      [amortized_investment |-> 10000, rate |-> 20000,
       fixed_capital |-> 5000, current_investment |-> 12000],
      [amortized_investment |-> 10000, rate |-> 20000,
       fixed_capital |-> 10000, current_investment |-> 20000] }

\* int(x) of a number
int(x) == (x \div MoneyScale) * MoneyScale

\* a value of params['quantity_to_trade']: the float 0.0 of the initial
\* params, or the 1-tuple that "float(quantity_to_trade)," makes
Scalar(x) == [tuple |-> FALSE, value |-> x]
Tuple1(x) == [tuple |-> TRUE, value |-> x]

\* params is None
NoParams ==
    [amortized_investment |-> None, rate |-> None, current_investment |-> None,
     fixed_capital |-> None, last_trade_price |-> None,
     quantity_to_trade |-> Scalar(None), Actual_order_value |-> None]

\* buy: order_market_buy answers the order, or raises and buy returns None
\* -> <<order or NoOrder, orders of the exchange>>
buy(os, q, placed) ==
    IF placed
    THEN <<[side |-> "buy", quantity |-> q, price |-> None],
           [os EXCEPT !["buy"].placed = @ + 1]>>
    ELSE <<NoOrder, [os EXCEPT !["buy"].refused = @ + 1]>>

\* sell: order_market_sell answers the order, or raises and sell returns None
sell(os, q, placed) ==
    IF placed
    THEN <<[side |-> "sell", quantity |-> q, price |-> None],
           [os EXCEPT !["sell"].placed = @ + 1]>>
    ELSE <<NoOrder, [os EXCEPT !["sell"].refused = @ + 1]>>

\* save_params_to_csv
save_params_to_csv(params, f) ==
    LET row == [kind |-> "row",
                amortized_investment |-> Repr(params.amortized_investment, MoneyScale),
                rate |-> Repr(params.rate, RateScale),
                current_investment |-> Repr(params.current_investment, MoneyScale),
                fixed_capital |-> Repr(params.fixed_capital, MoneyScale),
                last_trade_price |-> Repr(params.last_trade_price, 1),
                quantity_to_trade |->
                    [tuple |-> params.quantity_to_trade.tuple,
                     text |-> Repr(params.quantity_to_trade.value, MoneyScale)],
                Actual_order_value |-> Repr(params.Actual_order_value, MoneyScale)]
    IN  [exists |-> TRUE,
         lines |-> IF f.exists THEN Append(f.lines, row) ELSE <<Header, row>>]

\* a row of data.csv as the values its texts stand for (TradeBot reads them
\* with float() and int())
ParamsOfRow(row) ==
    [amortized_investment |-> Float(row.amortized_investment, MoneyScale),
     rate |-> Float(row.rate, RateScale),
     current_investment |-> Float(row.current_investment, MoneyScale),
     fixed_capital |-> Float(row.fixed_capital, MoneyScale),
     last_trade_price |-> Float(row.last_trade_price, 1),
     quantity_to_trade |->
         [tuple |-> row.quantity_to_trade.tuple,
          value |-> Float(row.quantity_to_trade.text, MoneyScale)],
     Actual_order_value |-> Float(row.Actual_order_value, MoneyScale)]

\* read_params_from_csv
read_params_from_csv(f) ==
    IF ~f.exists THEN NoParams
    ELSE LET params == Rows(f)
         IN  IF Len(params) > 0 THEN ParamsOfRow(params[Len(params)]) ELSE NoParams

\* TradeBot before its loop: the params read, or made from cfg and saved
\* -> <<params, data.csv>>
TradeBotParams(c, price, f) ==
    LET params == read_params_from_csv(f)
    IN  IF params = NoParams /\ price # None
        THEN LET initial == [amortized_investment |-> c.amortized_investment,
                             rate |-> c.rate,
                             current_investment |-> c.current_investment,
                             fixed_capital |-> c.fixed_capital,
                             last_trade_price |-> price,
                             quantity_to_trade |-> Scalar(0),
                             Actual_order_value |-> 0]
             IN  <<initial, save_params_to_csv(initial, f)>>
        ELSE <<params, f>>

\* what one pass of TradeBot's loop body leaves behind
TradeOutcome(params, f, os, d, q, o) ==
    [bot |-> params, csv_file |-> f, orders |-> os, decision |-> d,
     quantity |-> q, order |-> o]

\* "Update parameters" of a branch
UpdateParams(params, new_investment, new_fixed_capital, c_p, sized) ==
    [params EXCEPT !.current_investment = new_investment,
                   !.fixed_capital = new_fixed_capital,
                   !.last_trade_price = c_p,
                   !.quantity_to_trade = Tuple1(sized[1]),
                   !.Actual_order_value = sized[2]]

\* the buy branch from "if(rate >= cfg.R)" on
TradeBuy(c, params, f, os, c_p, rate, info, lastPrice, placed) ==
    LET A == int(params.amortized_investment)
        new == depreciate(1, rate, A, params.current_investment, params.fixed_capital)
    IN  IF new[2] < A THEN TradeOutcome(params, f, os, "BuySkip", None, NoOrder)
        ELSE IF info.kind = "raise" \/ info.step_size = 0
        THEN TradeOutcome(params, f, os, "Buy", None, NoOrder)
        ELSE LET sized == get_quantity_to_trade(c.amortized_investment, lastPrice,
                                                info.step_size, info.min_notional)
                 o == buy(os, sized[1], placed)
                 updated == UpdateParams(params, new[1], new[2], c_p, sized)
             IN  TradeOutcome(updated, save_params_to_csv(updated, f), o[2],
                              "Buy", sized[1], o[1])

\* the sell branch from "if(rate >= cfg.R)" on
TradeSell(c, params, f, os, c_p, rate, info, lastPrice, placed) ==
    LET A == int(params.amortized_investment)
        new == appreciate(1, rate, A, params.current_investment, params.fixed_capital)
    IN  IF new[1] < A THEN TradeOutcome(params, f, os, "SellSkip", None, NoOrder)
        ELSE IF info.kind = "raise" \/ info.step_size = 0
        THEN TradeOutcome(params, f, os, "Sell", None, NoOrder)
        ELSE LET sized == get_quantity_to_trade(c.amortized_investment, lastPrice,
                                                info.step_size, info.min_notional)
                 o == sell(os, sized[1], placed)
                 updated == UpdateParams(params, new[1], new[2], c_p, sized)
             IN  TradeOutcome(updated, f, o[2], "Sell", sized[1], o[1])

\* one pass of the "try" block of TradeBot on the price c_p
TradePass(c, params, f, os, c_p, info, lastPrice, placed) ==
    IF c_p = None THEN TradeOutcome(params, f, os, "NoPrice", None, NoOrder)
    ELSE IF params = NoParams THEN TradeOutcome(params, f, os, "NoParams", None, NoOrder)
    ELSE LET last_price == params.last_trade_price
             rate == RateChange(c_p, last_price)
         IN  IF c_p < last_price
             THEN IF rate >= c.rate
                  THEN TradeBuy(c, params, f, os, c_p, rate, info, lastPrice, placed)
                  ELSE TradeOutcome(params, f, os, "Hold", None, NoOrder)
             ELSE IF rate >= c.rate
                  THEN TradeSell(c, params, f, os, c_p, rate, info, lastPrice, placed)
                  ELSE TradeOutcome(params, f, os, "Hold", None, NoOrder)

\* data.csv when TradeBot starts: absent, or left by an earlier run
TradeStores ==
    {NoFile}
    \cup { [exists |-> TRUE, lines |-> <<Header>>] }
    \cup { TradeBotParams(c, 100, NoFile)[2] : c \in TradeConfigs }

InitTradeBot ==
    /\ cfg \in TradeConfigs
    /\ \E f \in TradeStores, price \in {None, 100} :
          /\ bot = TradeBotParams(cfg, price, f)[1]
          /\ csv_file = TradeBotParams(cfg, price, f)[2]
          /\ current_price = price
    /\ pc = "trade"
    /\ decision = "None"
    /\ quantity = None
    /\ order = NoOrder
    /\ orders = [buy |-> [placed |-> 0, refused |-> 0],
                 sell |-> [placed |-> 0, refused |-> 0]]
    /\ ticks = 0
    /\ restarts = 0
    /\ call = [fn |-> "TradeBot", args |-> <<>>, result |-> <<>>, done |-> FALSE]

\* TradeBot: one pass of the "while(True)" body
TradeBotPass ==
    /\ pc = "trade"
    /\ ticks < MaxPasses
    /\ \E price \in TradePrices \cup {None}, info \in SymbolInfos,
          lastPrice \in LastPrices, placed \in BOOLEAN :
          LET out == TradePass(cfg, bot, csv_file, orders, price, info, lastPrice,
                               placed)
          IN  /\ current_price' = price
              /\ decision' = out.decision
              /\ bot' = out.bot
              /\ csv_file' = out.csv_file
              /\ orders' = out.orders
              /\ quantity' = out.quantity
              /\ order' = out.order
    /\ ticks' = ticks + 1
    /\ UNCHANGED <<cfg, pc, restarts, call>>

NextTradeBot == TradeBotPass

SpecTradeBot == InitTradeBot /\ [][NextTradeBot]_vars

\* the ledger part of the params
TradeLedger(params) ==
    <<params.current_investment, params.fixed_capital, params.last_trade_price>>


\* a step that is one pass of TradeBot's loop body
TradePassStep == pc = "trade" /\ ticks' = ticks + 1

MaxLines == 4
\* calls of get_next_price in a run
MaxReads == 5

\* rows csv.reader can yield: the header, one field, two fields, a first
\* field that is empty, a blank line
SimRows == { <<"price">>, <<"28500">>, <<"28550", "7">>, <<"", "5">>, <<>> }

\* the files open() can find: none, or any lines
SimFiles ==
    {NoFile} \cup
    { [exists |-> TRUE, lines |-> l] :
        l \in UNION { [1..n -> SimRows] : n \in 0..MaxLines } }

\* LivePriceSimulator.__init__; reader counts the rows next() has consumed
LivePriceSimulator ==
    [file |-> "None", reader |-> None, is_finished |-> FALSE]

\* open_file
open_file(self, f) ==
    IF ~f.exists THEN [self EXCEPT !.is_finished = TRUE]
    ELSE IF Len(f.lines) = 0
    THEN [file |-> "open", reader |-> 0, is_finished |-> TRUE]
    ELSE [file |-> "open", reader |-> 1, is_finished |-> FALSE]

\* what a call of get_next_price gives back
ReturnNone == <<"None", "">>
ReturnStr(price) == <<"str", price>>
RaiseIndexError == <<"IndexError", "">>

\* get_next_price -> <<self, what the call gives back>>
get_next_price(self, f) ==
    IF self.is_finished THEN <<self, ReturnNone>>
    ELSE IF self.reader = Len(f.lines)
    THEN <<[self EXCEPT !.is_finished = TRUE, !.file = "closed"], ReturnNone>>
    ELSE LET row == f.lines[self.reader + 1]
             read == [self EXCEPT !.reader = @ + 1]
         IN  IF Len(row) = 0 THEN <<read, RaiseIndexError>>
             ELSE <<read, ReturnStr(row[1])>>

InitSim ==
    /\ csv_file \in SimFiles
    /\ bot = LivePriceSimulator
    /\ pc = "new"
    /\ call = [fn |-> "LivePriceSimulator", args |-> <<>>, result |-> ReturnNone,
               done |-> FALSE]
    /\ cfg = [delay |-> 1]
    /\ current_price = None
    /\ decision = "None"
    /\ quantity = None
    /\ order = NoOrder
    /\ orders = [buy |-> [placed |-> 0, refused |-> 0],
                 sell |-> [placed |-> 0, refused |-> 0]]
    /\ ticks = 0
    /\ restarts = 0

\* simulator.open_file()
SimOpenFile ==
    /\ pc = "new"
    /\ bot' = open_file(bot, csv_file)
    /\ pc' = "opened"
    /\ call' = [fn |-> "open_file", args |-> <<>>, result |-> ReturnNone,
                done |-> TRUE]
    /\ UNCHANGED <<cfg, csv_file, current_price, decision, quantity, order,
                   orders, ticks, restarts>>

\* simulator.get_next_price()
SimGetNextPrice ==
    /\ pc = "opened"
    /\ ticks < MaxReads
    /\ bot' = get_next_price(bot, csv_file)[1]
    /\ call' = [fn |-> "get_next_price", args |-> <<>>,
                result |-> get_next_price(bot, csv_file)[2], done |-> TRUE]
    /\ ticks' = ticks + 1
    /\ UNCHANGED <<cfg, csv_file, pc, current_price, decision, quantity, order,
                   orders, restarts>>

NextSim == SimOpenFile \/ SimGetNextPrice

SpecSim == InitSim /\ [][NextSim]_vars

\* C25: after open_file every call of get_next_price gives back the first
\* field of the next row after the header and moves on by one row, or, when
\* the rows are exhausted or the file was missing or empty, gives back None;
\* no call fails, and after a None every later call gives back None and reads
\* nothing.
C25_SimulatorDeliversEachRowOnce ==
    [][ (pc = "opened" /\ ticks' = ticks + 1) =>
          \/ /\ ~bot.is_finished
             /\ bot.reader >= 1
             /\ bot.reader < Len(csv_file.lines)
             /\ Len(csv_file.lines[bot.reader + 1]) > 0
             /\ call'.result = ReturnStr(csv_file.lines[bot.reader + 1][1])
             /\ bot'.reader = bot.reader + 1
             /\ ~bot'.is_finished
          \/ /\ bot.is_finished \/ bot.reader = Len(csv_file.lines)
             /\ call'.result = ReturnNone
             /\ bot'.is_finished
             /\ bot'.reader = bot.reader
      ]_vars

====
